---------------------------- MODULE Spec2Model ----------------------------
(***************************************************************************)
(* Filtering and aggregation of the sales dashboard                        *)
(* (src/streamlit_dashboard.py).                                           *)
(*                                                                         *)
(* A DataFrame is a sequence of rows (records keyed by column name); a     *)
(* Series is a sequence of entries [key, value] in index order.  Money is  *)
(* counted in cents (the data carries two decimals), so .round(2) is the   *)
(* identity on sums and binary rounding is not modelled.  A float that may *)
(* be non-finite is a pair <<n, d>>: n/d in lowest terms for d > 0,        *)
(* <<1, 0>> for inf and <<0, 0>> for NaN.                                  *)
(*                                                                         *)
(* The file exists and has at least one row.  Its text columns and its     *)
(* dates have no empty cell (sorted() of the filter options fails on one,  *)
(* and groupby drops a missing key); an ORDERNUMBER cell may be empty.     *)
(***************************************************************************)
EXTENDS Integers, Sequences, FiniteSets, TLC

VARIABLES
    df,                   \* the frame load_data() returned (cached)
    selected_years,       \* the four sidebar multiselects
    selected_products,
    selected_deal_sizes,
    selected_countries,
    tie_order,            \* how this build's quicksort leaves equal values
    filtered_df,          \* main(): df under the four filters
    out,                  \* main(): everything the last run put on the page
    series,               \* an aggregation result handed to the top-N selection
    head_n,               \* the n of the last .head(n)
    top_n                 \* sort_values(ascending=False).head(head_n) of series

vars == <<df, selected_years, selected_products, selected_deal_sizes,
          selected_countries, tie_order, filtered_df, out,
          series, head_n, top_n>>

-----------------------------------------------------------------------------
(* Bounds of the model                                                     *)

MaxRows == 3
MaxGroups == 21
Modulus == 4

(* Constants of the program                                                *)

TopCountries == 15
TopProducts == 10
TopCustomers == 15
TopCustomerOrders == 15
TopCustomerAnalysis == 20
MaxDefaultCountries == 10

NumericColumns ==
    {"Year", "Month", "Quarter", "ORDERNUMBER", "SALES", "QUANTITYORDERED"}

\* An empty cell of the CSV: read_csv gives NaN, which nunique() skips.
NA == -1

-----------------------------------------------------------------------------
(* Python's order on the strings that occur as keys (code point order).    *)

Lexicon ==
    << "Atelier graphique", "Classic Cars", "France", "Friday",
       "Land of Toys Inc.", "Medium", "Mini Wheels Co.", "Monday",
       "Motorcycles", "S10_1678", "S10_1949", "Saturday", "Small", "Sunday",
       "Thursday", "Tuesday", "USA", "Wednesday" >>

StrRank(s) == CHOOSE i \in DOMAIN Lexicon : Lexicon[i] = s

StrLess(a, b) == StrRank(a) < StrRank(b)

\* Mutant: the month compared as text, "10" before "2".
TupleLessLexical(a, b) ==
    LET digits(n) == IF n < 10 THEN <<n>> ELSE <<n \div 10, n % 10>>
        seqLess(s, t) ==
            \/ s[1] < t[1]
            \/ s[1] = t[1] /\ Len(s) = 1 /\ Len(t) = 2
            \/ s[1] = t[1] /\ Len(s) = 2 /\ Len(t) = 2 /\ s[2] < t[2]
    IN  \/ a[1] < b[1]
        \/ a[1] = b[1] /\ seqLess(digits(a[2]), digits(b[2]))

\* Tuples of integers compare component by component, as Python's do.
TupleLess(a, b) ==
    \/ a[1] < b[1]
    \/ a[1] = b[1] /\ a[2] < b[2]

\* The order groupby(sort=True) and sorted() put keys in.
KeyLess(by, a, b) ==
    IF Len(by) = 2 THEN TupleLess(a, b)
    ELSE IF by[1] \in NumericColumns THEN a < b
    ELSE StrLess(a, b)

-----------------------------------------------------------------------------
(* Floats                                                                  *)

NaN == <<0, 0>>
Inf == <<1, 0>>

RECURSIVE Gcd(_, _)
Gcd(a, b) == IF b = 0 THEN a ELSE Gcd(b, a % b)

AsFloat(i) == <<i, 1>>

\* a / b on non-negative floats that hold integers: IEEE division never raises.
FloatDiv(a, b) ==
    IF b = 0 THEN (IF a = 0 THEN NaN ELSE Inf)
    ELSE LET g == Gcd(a, b) IN <<a \div g, b \div g>>

IsFinite(f) == f[2] # 0

\* .round(2): to the nearest cent, halves to the even cent; inf and NaN stay.
Round2(f) ==
    IF ~IsFinite(f) THEN f
    ELSE LET q == f[1] \div f[2]
             r == f[1] % f[2]
         IN  IF 2 * r < f[2] THEN <<q, 1>>
             ELSE IF 2 * r > f[2] THEN <<q + 1, 1>>
             ELSE IF q % 2 = 0 THEN <<q, 1>> ELSE <<q + 1, 1>>

-----------------------------------------------------------------------------
(* Series and column primitives (pandas)                                   *)

RECURSIVE SumSeq(_)
SumSeq(s) == IF s = <<>> THEN 0 ELSE Head(s) + SumSeq(Tail(s))

Column(frame, col) == [i \in DOMAIN frame |-> frame[i][col]]

Range(s) == {s[i] : i \in DOMAIN s}

\* Series.sum(): 0 for an empty column.
sum(frame, col) == SumSeq(Column(frame, col))

\* Mutant: the average taken per distinct order, not per row.
mean_per_order(frame, col) ==
    FloatDiv(sum(frame, col),
             Cardinality({v \in Range(Column(frame, "ORDERNUMBER")) : v # NA}))

\* Series.mean(): NaN for an empty column.
mean(frame, col) == FloatDiv(sum(frame, col), Len(frame))

\* An empty cell reads as NaN; the text columns of the file have none.
isna(col, v) == col \in NumericColumns /\ v = NA

\* Series.nunique(): distinct values, missing ones not counted.
nunique(frame, col) ==
    Cardinality({v \in Range(Column(frame, col)) : ~isna(col, v)})

\* Series.isin(values)
isin(value, values) == value \in values

\* frame[mask]: the rows whose mask is True, in frame order.
RECURSIVE BoolIndexFrom(_, _, _)
BoolIndexFrom(frame, mask, i) ==
    IF i > Len(frame) THEN <<>>
    ELSE (IF mask[i] THEN <<frame[i]>> ELSE <<>>)
         \o BoolIndexFrom(frame, mask, i + 1)

\* Mutant: the selected rows come out last row first.
BoolIndexReversed(frame, mask) ==
    LET rows == BoolIndexFrom(frame, mask, 1)
    IN  [i \in DOMAIN rows |-> rows[Len(rows) + 1 - i]]

BoolIndex(frame, mask) == BoolIndexFrom(frame, mask, 1)

\* sorted(x.unique()) and the key order of groupby.
SortedKeys(S, by) ==
    [i \in 1..Cardinality(S) |->
        CHOOSE k \in S : Cardinality({j \in S : KeyLess(by, j, k)}) = i - 1]

KeyOf(row, by) ==
    IF Len(by) = 1 THEN row[by[1]] ELSE <<row[by[1]], row[by[2]]>>

\* Mutant: a group keeps only its first row.
GroupFirstOnly(frame, by, k) ==
    LET rows == BoolIndexFrom(frame, [i \in DOMAIN frame |-> KeyOf(frame[i], by) = k], 1)
    IN  IF rows = <<>> THEN <<>> ELSE <<rows[1]>>

\* The rows of one group, in frame order.
Group(frame, by, k) ==
    BoolIndex(frame, [i \in DOMAIN frame |-> KeyOf(frame[i], by) = k])

\* The observed keys of a grouping, ascending.
GroupKeys(frame, by) ==
    SortedKeys({KeyOf(frame[i], by) : i \in DOMAIN frame}, by)

\* frame.groupby(by)[col].sum(): one entry per observed key, keys ascending.
groupby_sum(frame, by, col) ==
    LET keys == GroupKeys(frame, by)
    IN  [i \in DOMAIN keys |->
            [key |-> keys[i], value |-> sum(Group(frame, by, keys[i]), col)]]

\* frame.groupby(by)[col].nunique()
groupby_nunique(frame, by, col) ==
    LET keys == GroupKeys(frame, by)
    IN  [i \in DOMAIN keys |->
            [key |-> keys[i], value |-> nunique(Group(frame, by, keys[i]), col)]]

\* sort_values(ascending=False), kind='quicksort': descending by value.  The
\* sort is not stable: equal values come out in the order the build leaves
\* them, either as they stood ("kept") or turned round ("reversed").
Before(s, by, order, i, j) ==
    \/ s[i][by] > s[j][by]
    \/ s[i][by] = s[j][by] /\ order = "kept" /\ i < j
    \/ s[i][by] = s[j][by] /\ order = "reversed" /\ i > j

\* Mutant: ascending=False forgotten.
sort_values_ascending(s, by, order) ==
    [r \in DOMAIN s |->
        s[CHOOSE i \in DOMAIN s :
            Cardinality({j \in DOMAIN s :
                \/ s[j][by] < s[i][by]
                \/ s[j][by] = s[i][by] /\ j < i}) = r - 1]]

sort_values(s, by, order) ==
    [r \in DOMAIN s |->
        s[CHOOSE i \in DOMAIN s :
            Cardinality({j \in DOMAIN s : Before(s, by, order, j, i)}) = r - 1]]

\* .head(n): the first n entries, all of them when there are fewer.
head(s, n) == IF Len(s) <= n THEN s ELSE SubSeq(s, 1, n)

\* .reindex(index): exactly the keys of index, in that order; a key the
\* series lacks gets NaN (the values become floats).
reindex(s, index) ==
    [i \in DOMAIN index |->
        [key |-> index[i],
         value |-> IF \E j \in DOMAIN s : s[j].key = index[i]
                   THEN AsFloat(s[CHOOSE j \in DOMAIN s : s[j].key = index[i]].value)
                   ELSE NaN]]

-----------------------------------------------------------------------------
(* load_data                                                               *)

DayNames ==
    << "Monday", "Tuesday", "Wednesday", "Thursday", "Friday", "Saturday",
       "Sunday" >>

MonthNames ==
    << "January", "February", "March", "April", "May", "June", "July",
       "August", "September", "October", "November", "December" >>

\* pd.to_datetime on the file's month/day/year text.
to_datetime(text) == [year |-> text[3], month |-> text[1], day |-> text[2]]

\* Days since 1970-01-01 in the proleptic Gregorian calendar.
DaysFromCivil(date) ==
    LET y   == IF date.month <= 2 THEN date.year - 1 ELSE date.year
        era == y \div 400
        yoe == y - era * 400
        mp  == (date.month + 9) % 12
        doy == (153 * mp + 2) \div 5 + date.day - 1
        doe == yoe * 365 + yoe \div 4 - yoe \div 100 + doy
    IN  era * 146097 + doe - 719468

\* .dt.day_name(): 1970-01-01 was a Thursday.
day_name(date) == DayNames[((DaysFromCivil(date) + 3) % 7) + 1]

\* .dt.quarter
quarter(date) == (date.month - 1) \div 3 + 1

columns_to_drop == {"ADDRESSLINE2", "STATE", "TERRITORY"}

load_data(csv) ==
    [i \in DOMAIN csv |->
        LET date == to_datetime(csv[i].ORDERDATE)
            row  == [ORDERDATE |-> date,
                     Year      |-> date.year,
                     Month     |-> date.month,
                     MonthName |-> MonthNames[date.month],
                     Quarter   |-> quarter(date),
                     Weekday   |-> day_name(date)] @@ csv[i]
        IN  [c \in (DOMAIN row) \ columns_to_drop |-> row[c]]]

-----------------------------------------------------------------------------
(* The rows a sales file is made of.  SALES is in cents.                   *)

SampleRows ==
    << [ORDERNUMBER |-> 10100, QUANTITYORDERED |-> 30, SALES |-> 100,
        ORDERDATE |-> <<2, 24, 2003>>, PRODUCTLINE |-> "Classic Cars",
        PRODUCTCODE |-> "S10_1949", CUSTOMERNAME |-> "Land of Toys Inc.",
        COUNTRY |-> "USA", DEALSIZE |-> "Small", TERRITORY |-> "NA"],
       [ORDERNUMBER |-> 10100, QUANTITYORDERED |-> 20, SALES |-> 201,
        ORDERDATE |-> <<2, 24, 2003>>, PRODUCTLINE |-> "Motorcycles",
        PRODUCTCODE |-> "S10_1678", CUSTOMERNAME |-> "Land of Toys Inc.",
        COUNTRY |-> "USA", DEALSIZE |-> "Medium", TERRITORY |-> "NA"],
       [ORDERNUMBER |-> 10200, QUANTITYORDERED |-> 40, SALES |-> 301,
        ORDERDATE |-> <<10, 10, 2003>>, PRODUCTLINE |-> "Classic Cars",
        PRODUCTCODE |-> "S10_1949", CUSTOMERNAME |-> "Atelier graphique",
        COUNTRY |-> "France", DEALSIZE |-> "Medium", TERRITORY |-> "EMEA"],
       [ORDERNUMBER |-> 10300, QUANTITYORDERED |-> 10, SALES |-> 100,
        ORDERDATE |-> <<3, 15, 2004>>, PRODUCTLINE |-> "Motorcycles",
        PRODUCTCODE |-> "S10_1678", CUSTOMERNAME |-> "Atelier graphique",
        COUNTRY |-> "France", DEALSIZE |-> "Small", TERRITORY |-> "EMEA"],
       [ORDERNUMBER |-> NA, QUANTITYORDERED |-> 5, SALES |-> 50,
        ORDERDATE |-> <<11, 6, 2004>>, PRODUCTLINE |-> "Classic Cars",
        PRODUCTCODE |-> "S10_1949", CUSTOMERNAME |-> "Mini Wheels Co.",
        COUNTRY |-> "USA", DEALSIZE |-> "Small", TERRITORY |-> "NA"] >>

\* The files: one to MaxRows distinct sample rows, in any order.
Files ==
    UNION {{f \in [1..n -> Range(SampleRows)] :
               \A i, j \in 1..n : i # j => f[i] # f[j]} : n \in 1..MaxRows}

TieOrders == {"kept", "reversed"}

-----------------------------------------------------------------------------
(* main                                                                    *)

Options(frame, col) == SortedKeys(Range(Column(frame, col)), <<col>>)

\* default=countries[:10] if len(countries) > 10 else countries
DefaultCountries(countries) ==
    IF Len(countries) > MaxDefaultCountries
    THEN SubSeq(countries, 1, MaxDefaultCountries)
    ELSE countries

\* Mutant: the four masks joined by | instead of &.
ApplyFiltersAny(frame, years, products, deal_sizes, countries) ==
    BoolIndex(frame,
        [i \in DOMAIN frame |->
            \/ isin(frame[i].Year, years)
            \/ isin(frame[i].PRODUCTLINE, products)
            \/ isin(frame[i].DEALSIZE, deal_sizes)
            \/ isin(frame[i].COUNTRY, countries)])

\* Apply filters: the mask is the AND of the four isin() masks.
ApplyFilters(frame, years, products, deal_sizes, countries) ==
    BoolIndex(frame,
        [i \in DOMAIN frame |->
            /\ isin(frame[i].Year, years)
            /\ isin(frame[i].PRODUCTLINE, products)
            /\ isin(frame[i].DEALSIZE, deal_sizes)
            /\ isin(frame[i].COUNTRY, countries)])

\* The five key metrics (lines 132-150).
KeyMetrics(frame) ==
    [total_sales     |-> sum(frame, "SALES"),
     total_orders    |-> nunique(frame, "ORDERNUMBER"),
     avg_order_value |-> mean(frame, "SALES"),
     total_customers |-> nunique(frame, "CUSTOMERNAME"),
     total_products  |-> nunique(frame, "PRODUCTCODE")]

\* groupby('PRODUCTLINE').agg({...}).round(2), renamed and sorted.
product_summary(frame, order) ==
    LET keys == GroupKeys(frame, <<"PRODUCTLINE">>)
        rows == [i \in DOMAIN keys |->
                    LET g == Group(frame, <<"PRODUCTLINE">>, keys[i])
                    IN  [key                |-> keys[i],
                         Total_Sales        |-> sum(g, "SALES"),
                         Avg_Sale           |-> Round2(mean(g, "SALES")),
                         Total_Transactions |-> Len(g),
                         Total_Quantity     |-> sum(g, "QUANTITYORDERED"),
                         Unique_Orders      |-> nunique(g, "ORDERNUMBER")]]
    IN  sort_values(rows, "Total_Sales", order)

\* groupby('CUSTOMERNAME').agg({...}).round(2), with Revenue per Order.
customer_analysis(frame, order) ==
    LET keys == GroupKeys(frame, <<"CUSTOMERNAME">>)
        rows == [i \in DOMAIN keys |->
                    LET g      == Group(frame, <<"CUSTOMERNAME">>, keys[i])
                        total  == sum(g, "SALES")
                        orders == nunique(g, "ORDERNUMBER")
                    IN  [key               |-> keys[i],
                         Total_Sales       |-> total,
                         Avg_Order_Value   |-> Round2(mean(g, "SALES")),
                         Total_Orders      |-> orders,
                         Total_Quantity    |-> sum(g, "QUANTITYORDERED"),
                         Revenue_per_Order |-> Round2(FloatDiv(total, orders))]]
    IN  head(sort_values(rows, "Total_Sales", order), TopCustomerAnalysis)

\* groupby(['Year', 'Month'])['SALES'].sum().reset_index(), with Date.
monthly_sales(frame) ==
    LET s == groupby_sum(frame, <<"Year", "Month">>, "SALES")
    IN  [i \in DOMAIN s |->
            [Year  |-> s[i].key[1],
             Month |-> s[i].key[2],
             SALES |-> s[i].value,
             Date  |-> [year |-> s[i].key[1], month |-> s[i].key[2], day |-> 1]]]

\* groupby(['Year', 'Quarter'])['SALES'].sum().reset_index(), with Period.
quarterly_sales(frame) ==
    LET s == groupby_sum(frame, <<"Year", "Quarter">>, "SALES")
    IN  [i \in DOMAIN s |->
            [Year    |-> s[i].key[1],
             Quarter |-> s[i].key[2],
             SALES   |-> s[i].value,
             Period  |-> ToString(s[i].key[1]) \o "-Q" \o ToString(s[i].key[2])]]

\* groupby('Weekday')['SALES'].sum().reindex([Monday .. Sunday])
weekday_sales(frame) ==
    reindex(groupby_sum(frame, <<"Weekday">>, "SALES"), DayNames)

\* The Summary sheet of the Excel export.
convert_df_to_excel(frame) ==
    << [Metric |-> "Total Sales",     Value |-> AsFloat(sum(frame, "SALES"))],
       [Metric |-> "Total Orders",    Value |-> AsFloat(nunique(frame, "ORDERNUMBER"))],
       [Metric |-> "Avg Order Value", Value |-> mean(frame, "SALES")],
       [Metric |-> "Total Customers", Value |-> AsFloat(nunique(frame, "CUSTOMERNAME"))],
       [Metric |-> "Total Products",  Value |-> AsFloat(nunique(frame, "PRODUCTCODE"))] >>

\* What a run that stopped at the empty check left on the page.
NoData ==
    [warning |-> TRUE, kpi |-> <<>>, product_sales |-> <<>>, deal_sales |-> <<>>,
     country_sales |-> <<>>, top_products |-> <<>>, product_summary |-> <<>>,
     top_customers |-> <<>>, customer_orders |-> <<>>,
     customer_analysis |-> <<>>, monthly_sales |-> <<>>,
     quarterly_sales |-> <<>>, weekday_sales |-> <<>>, summary |-> <<>>]

\* main() from the key metrics down to the export (lines 127-396).
Page(frame, order) ==
    [warning |-> FALSE,
     kpi |-> <<KeyMetrics(frame)>>,
     product_sales |->
        sort_values(groupby_sum(frame, <<"PRODUCTLINE">>, "SALES"), "value", order),
     deal_sales |-> groupby_sum(frame, <<"DEALSIZE">>, "SALES"),
     country_sales |->
        head(sort_values(groupby_sum(frame, <<"COUNTRY">>, "SALES"), "value", order),
             TopCountries),
     top_products |->
        head(sort_values(groupby_sum(frame, <<"PRODUCTCODE">>, "SALES"), "value", order),
             TopProducts),
     product_summary |-> product_summary(frame, order),
     top_customers |->
        head(sort_values(groupby_sum(frame, <<"CUSTOMERNAME">>, "SALES"), "value", order),
             TopCustomers),
     customer_orders |->
        head(sort_values(groupby_nunique(frame, <<"CUSTOMERNAME">>, "ORDERNUMBER"),
                         "value", order),
             TopCustomerOrders),
     customer_analysis |-> customer_analysis(frame, order),
     monthly_sales |-> monthly_sales(frame),
     quarterly_sales |-> quarterly_sales(frame),
     weekday_sales |-> weekday_sales(frame),
     summary |-> convert_df_to_excel(frame)]

\* Mutant: no check for an empty frame.
main_unguarded(frame, order) == Page(frame, order)

\* One run of main() below the filters: on an empty frame it warns and
\* returns (lines 123-125).
main(frame, order) ==
    IF frame = <<>> THEN NoData ELSE Page(frame, order)

-----------------------------------------------------------------------------
(* The dashboard: a file is loaded once, then every change of a filter     *)
(* widget reruns main() from the top.                                      *)

\* Mutant: the page is built from the whole dataset, not the filtered frame.
RunUnfiltered(years, products, deal_sizes, countries) ==
    /\ selected_years' = years
    /\ selected_products' = products
    /\ selected_deal_sizes' = deal_sizes
    /\ selected_countries' = countries
    /\ filtered_df' = ApplyFilters(df, years, products, deal_sizes, countries)
    /\ out' = main(df, tie_order)
    /\ UNCHANGED <<df, tie_order, series, head_n, top_n>>

Run(years, products, deal_sizes, countries) ==
    /\ selected_years' = years
    /\ selected_products' = products
    /\ selected_deal_sizes' = deal_sizes
    /\ selected_countries' = countries
    /\ filtered_df' = ApplyFilters(df, years, products, deal_sizes, countries)
    /\ out' = main(filtered_df', tie_order)
    /\ UNCHANGED <<df, tie_order, series, head_n, top_n>>

Init ==
    /\ df \in {load_data(f) : f \in Files}
    /\ tie_order \in TieOrders
    /\ selected_years = Range(Options(df, "Year"))
    /\ selected_products = Range(Options(df, "PRODUCTLINE"))
    /\ selected_deal_sizes = Range(Options(df, "DEALSIZE"))
    /\ selected_countries = Range(DefaultCountries(Options(df, "COUNTRY")))
    /\ filtered_df = ApplyFilters(df, selected_years, selected_products,
                                  selected_deal_sizes, selected_countries)
    /\ out = main(filtered_df, tie_order)
    /\ series = <<>>
    /\ head_n = 0
    /\ top_n = <<>>

SelectYears ==
    \E S \in SUBSET Range(Options(df, "Year")) :
        Run(S, selected_products, selected_deal_sizes, selected_countries)

SelectProducts ==
    \E S \in SUBSET Range(Options(df, "PRODUCTLINE")) :
        Run(selected_years, S, selected_deal_sizes, selected_countries)

SelectDealSizes ==
    \E S \in SUBSET Range(Options(df, "DEALSIZE")) :
        Run(selected_years, selected_products, S, selected_countries)

SelectCountries ==
    \E S \in SUBSET Range(Options(df, "COUNTRY")) :
        Run(selected_years, selected_products, selected_deal_sizes, S)

Next ==
    \/ SelectYears
    \/ SelectProducts
    \/ SelectDealSizes
    \/ SelectCountries

Spec == Init /\ [][Next]_vars

-----------------------------------------------------------------------------
(* The top-N selection on its own: sort_values(ascending=False).head(n)    *)
(* of an aggregation result, for the n the dashboard uses.  The result of  *)
(* a groupby has one entry per key, keys ascending; the values of the      *)
(* results tried here run through the residues of a multiple of the key,   *)
(* so that runs, reversals and ties of every length occur.                 *)

SeriesOf(k, mult) ==
    [i \in 1..k |-> [key |-> i, value |-> (mult * i) % Modulus]]

HeadSizes ==
    {TopCountries, TopProducts, TopCustomers, TopCustomerOrders,
     TopCustomerAnalysis}

InitTopN ==
    /\ series \in {SeriesOf(k, mult) : k \in 0..MaxGroups, mult \in 0..(Modulus - 1)}
    /\ tie_order \in TieOrders
    /\ head_n = 0
    /\ top_n = <<>>
    /\ df = <<>>
    /\ selected_years = {}
    /\ selected_products = {}
    /\ selected_deal_sizes = {}
    /\ selected_countries = {}
    /\ filtered_df = <<>>
    /\ out = NoData

TopN ==
    \E n \in HeadSizes :
        /\ head_n' = n
        /\ top_n' = head(sort_values(series, "value", tie_order), n)
        /\ UNCHANGED <<df, selected_years, selected_products,
                       selected_deal_sizes, selected_countries, tie_order,
                       filtered_df, out, series>>

NextTopN == TopN

SpecTopN == InitTopN /\ [][NextTopN]_vars

-----------------------------------------------------------------------------
(* Properties                                                              *)

Rendered == ~out.warning

\* The row passes all four filters.
Passes(r) ==
    /\ r.Year \in selected_years
    /\ r.PRODUCTLINE \in selected_products
    /\ r.DEALSIZE \in selected_deal_sizes
    /\ r.COUNTRY \in selected_countries

Total(frame) == SumSeq([i \in DOMAIN frame |-> frame[i].SALES])

SumOf(s, col) == SumSeq([i \in DOMAIN s |-> s[i][col]])

Keys(s) == {s[i].key : i \in DOMAIN s}

Observed(col) == {filtered_df[i][col] : i \in DOMAIN filtered_df}

Min(a, b) == IF a <= b THEN a ELSE b

\* C1: a record is in the filtered subset iff its year, product line, deal
\* size and country are each in the corresponding selected set; if one of
\* the four selected sets is empty, the filtered subset is empty.
C1_FilterMembership ==
    /\ \A i \in DOMAIN df :
          (\E j \in DOMAIN filtered_df : filtered_df[j] = df[i]) <=> Passes(df[i])
    /\ \A j \in DOMAIN filtered_df : \E i \in DOMAIN df : df[i] = filtered_df[j]
    /\ Len(filtered_df) = Cardinality({i \in DOMAIN df : Passes(df[i])})
    /\ ({} \in {selected_years, selected_products, selected_deal_sizes,
                selected_countries}) => filtered_df = <<>>

\* One selected set is empty while every row passes the other three.
C1_Witness ==
    /\ Len(df) >= 2
    /\ selected_deal_sizes = {}
    /\ \A i \in DOMAIN df :
          /\ df[i].Year \in selected_years
          /\ df[i].PRODUCTLINE \in selected_products
          /\ df[i].COUNTRY \in selected_countries
    /\ filtered_df = <<>>

TieBrokenByKey(s) ==
    \A i, j \in DOMAIN s :
        i < j => \/ s[i].value > s[j].value
                 \/ s[i].value = s[j].value /\ StrLess(s[i].key, s[j].key)

\* C3: every top-N result (countries, product codes, customers by sales,
\* customers by distinct order count) is ordered by value descending, and
\* entries with equal values appear in ascending order of their key.
C3_TopNTieBreakByKey ==
    /\ TieBrokenByKey(out.country_sales)
    /\ TieBrokenByKey(out.top_products)
    /\ TieBrokenByKey(out.top_customers)
    /\ TieBrokenByKey(out.customer_orders)

\* C4: the top-N selection of an aggregation result with k groups returns
\* min(N, k) entries, each a group of the result with its value unchanged,
\* and no group left out has a value greater than a returned one.
C4_TopNSelection ==
    head_n > 0 =>
        /\ Len(top_n) = Min(head_n, Len(series))
        /\ \A i \in DOMAIN top_n : \E j \in DOMAIN series : series[j] = top_n[i]
        /\ \A i, j \in DOMAIN top_n : i # j => top_n[i].key # top_n[j].key
        /\ \A j \in DOMAIN series :
              series[j].key \notin Keys(top_n) =>
                  \A i \in DOMAIN top_n : ~(series[j].value > top_n[i].value)

\* More groups than N, with a value shared across the cut.
C4_Witness ==
    /\ head_n = TopProducts
    /\ Len(series) > head_n
    /\ Len(top_n) = head_n
    /\ \E j \in DOMAIN series :
          /\ series[j].key \notin Keys(top_n)
          /\ series[j].value = top_n[Len(top_n)].value
    /\ top_n[1].value > top_n[Len(top_n)].value

C6_RevenuePerOrderGuarded ==
    \A i \in DOMAIN out.customer_analysis :
        LET row == out.customer_analysis[i]
            rpo == row.Revenue_per_Order
        IN  /\ IsFinite(rpo)
            /\ row.Total_Orders = 0 => rpo = AsFloat(0)
            /\ row.Total_Orders > 0 =>
                  /\ rpo[2] = 1
                  /\ 2 * (rpo[1] * row.Total_Orders - row.Total_Sales) <= row.Total_Orders
                  /\ 2 * (row.Total_Sales - rpo[1] * row.Total_Orders) <= row.Total_Orders

\* C7 as claimed: every aggregation result, sales by weekday included, has
\* a key only if a record of the filtered subset has it; the weekday keys
\* are exactly the weekday names observed.
C7_OnlyObservedGroups ==
    Rendered =>
        /\ Keys(out.product_sales) \subseteq Observed("PRODUCTLINE")
        /\ Keys(out.deal_sales) \subseteq Observed("DEALSIZE")
        /\ Keys(out.country_sales) \subseteq Observed("COUNTRY")
        /\ Keys(out.top_products) \subseteq Observed("PRODUCTCODE")
        /\ Keys(out.top_customers) \subseteq Observed("CUSTOMERNAME")
        /\ Keys(out.customer_orders) \subseteq Observed("CUSTOMERNAME")
        /\ Keys(out.weekday_sales) = Observed("Weekday")

\* C7 as amended: every aggregation result but sales by weekday has a key
\* only if a record of the filtered subset has it; sales by weekday always
\* has the seven keys Monday..Sunday in that order, a weekday without
\* records carrying NaN and every other one its SALES sum.
C7_OnlyObservedGroupsButWeekday ==
    Rendered =>
        /\ Keys(out.product_sales) \subseteq Observed("PRODUCTLINE")
        /\ Keys(out.deal_sales) \subseteq Observed("DEALSIZE")
        /\ Keys(out.country_sales) \subseteq Observed("COUNTRY")
        /\ Keys(out.top_products) \subseteq Observed("PRODUCTCODE")
        /\ Keys(out.top_customers) \subseteq Observed("CUSTOMERNAME")
        /\ Keys(out.customer_orders) \subseteq Observed("CUSTOMERNAME")
        /\ Keys(out.product_summary) \subseteq Observed("PRODUCTLINE")
        /\ Keys(out.customer_analysis) \subseteq Observed("CUSTOMERNAME")
        /\ \A i \in DOMAIN out.monthly_sales :
              \E j \in DOMAIN filtered_df :
                  /\ filtered_df[j].Year = out.monthly_sales[i].Year
                  /\ filtered_df[j].Month = out.monthly_sales[i].Month
        /\ \A i \in DOMAIN out.quarterly_sales :
              \E j \in DOMAIN filtered_df :
                  /\ filtered_df[j].Year = out.quarterly_sales[i].Year
                  /\ filtered_df[j].Quarter = out.quarterly_sales[i].Quarter
        /\ [i \in DOMAIN out.weekday_sales |-> out.weekday_sales[i].key]
              = <<"Monday", "Tuesday", "Wednesday", "Thursday", "Friday",
                  "Saturday", "Sunday">>
        /\ \A i \in DOMAIN out.weekday_sales :
              LET e == out.weekday_sales[i]
                  rows == {j \in DOMAIN filtered_df : filtered_df[j].Weekday = e.key}
              IN  IF rows = {} THEN e.value = NaN
                  ELSE e.value = AsFloat(SumSeq([j \in DOMAIN filtered_df |->
                                    IF j \in rows THEN filtered_df[j].SALES ELSE 0]))

\* The filters drop a product line of the dataset, and some weekday has no
\* record left.
C7_Witness ==
    /\ Rendered
    /\ \E i \in DOMAIN df : df[i].PRODUCTLINE \notin Observed("PRODUCTLINE")
    /\ \E i \in DOMAIN out.weekday_sales : out.weekday_sales[i].value = NaN
    /\ \E i \in DOMAIN out.weekday_sales : out.weekday_sales[i].value # NaN

\* C8: on a non-empty filtered subset the KPI snapshot is total_sales = sum
\* of SALES, total_orders = distinct order numbers, avg_order_value =
\* total_sales / number of records, total_customers = distinct customer
\* names, total_products = distinct product codes, all over the filtered
\* subset; the export summary holds the same five values.
C8_KpiSnapshot ==
    filtered_df # <<>> =>
        /\ Len(out.kpi) = 1
        /\ LET k == out.kpi[1]
           IN  /\ k.total_sales = Total(filtered_df)
               /\ k.total_orders = Cardinality(Observed("ORDERNUMBER") \ {NA})
               /\ k.avg_order_value[2] > 0
               /\ k.avg_order_value[1] * Len(filtered_df)
                     = Total(filtered_df) * k.avg_order_value[2]
               /\ k.total_customers = Cardinality(Observed("CUSTOMERNAME"))
               /\ k.total_products = Cardinality(Observed("PRODUCTCODE"))
               /\ [i \in DOMAIN out.summary |-> out.summary[i].Value]
                     = << AsFloat(k.total_sales), AsFloat(k.total_orders),
                          k.avg_order_value, AsFloat(k.total_customers),
                          AsFloat(k.total_products) >>

\* A strict subset of the dataset with more line items than orders.
C8_Witness ==
    /\ Len(out.kpi) = 1
    /\ Len(filtered_df) >= 2
    /\ Len(filtered_df) < Len(df)
    /\ out.kpi[1].total_orders > 0
    /\ out.kpi[1].total_orders < Len(filtered_df)

\* The position of a row of the dataset (its rows are distinct).
PositionIn(frame, r) == CHOOSE i \in DOMAIN frame : frame[i] = r

\* C9: filtering the filtered subset again with the same specification
\* returns it unchanged, its records stand in the order they have in the
\* dataset, and the dataset itself never changes.
C9_FilterIdempotentStable ==
    /\ [](/\ ApplyFilters(filtered_df, selected_years, selected_products,
                          selected_deal_sizes, selected_countries) = filtered_df
          /\ \A i, j \in DOMAIN filtered_df :
                i < j => PositionIn(df, filtered_df[i]) < PositionIn(df, filtered_df[j]))
    /\ [][df' = df]_vars

\* Two rows are kept and one is dropped.
C9_Witness ==
    /\ Len(filtered_df) >= 2
    /\ Len(filtered_df) < Len(df)
    /\ filtered_df[1] # df[1]

\* C10: the monthly and the quarterly result are in chronological order
\* (year, then month or quarter as a number), and each bucket's Date or
\* Period is built from its own key.
C10_ChronologicalBuckets ==
    /\ \A i, j \in DOMAIN out.monthly_sales :
          LET a == out.monthly_sales[i]
              b == out.monthly_sales[j]
          IN  i < j <=> \/ a.Year < b.Year
                        \/ a.Year = b.Year /\ a.Month < b.Month
    /\ \A i \in DOMAIN out.monthly_sales :
          LET a == out.monthly_sales[i]
          IN  a.Date = [year |-> a.Year, month |-> a.Month, day |-> 1]
    /\ \A i, j \in DOMAIN out.quarterly_sales :
          LET a == out.quarterly_sales[i]
              b == out.quarterly_sales[j]
          IN  i < j <=> \/ a.Year < b.Year
                        \/ a.Year = b.Year /\ a.Quarter < b.Quarter
    /\ \A i \in DOMAIN out.quarterly_sales :
          LET a == out.quarterly_sales[i]
          IN  a.Period = ToString(a.Year) \o "-Q" \o ToString(a.Quarter)

\* February and October of one year, and two quarters.
C10_Witness ==
    /\ \E i, j \in DOMAIN out.monthly_sales :
          /\ out.monthly_sales[i].Year = out.monthly_sales[j].Year
          /\ out.monthly_sales[i].Month = 2
          /\ out.monthly_sales[j].Month = 10
    /\ Len(out.quarterly_sales) >= 2

=============================================================================
